---- MODULE Spec2Model ----
(***************************************************************************)
(* Model of the inzunet virtual network driver                              *)
(* (src/Linux-Kernel/basic-network-device/inzunet.c).                       *)
(*                                                                          *)
(* The driver is a set of callbacks the host kernel runs: module init and   *)
(* exit, ndo_open / ndo_stop / ndo_start_xmit of the net_device, and the    *)
(* show callback of /proc/inzunet_stats.  Each statement of a callback that *)
(* touches shared state is one action, so that concurrent transmit calls    *)
(* and status reads interleave statement by statement.                      *)
(*                                                                          *)
(* The host side (alloc_netdev, register_netdev, proc_create, the packet    *)
(* allocator) is the environment: its outcomes are drawn with \E, and what  *)
(* it owns is kept in bookkeeping variables (how often a resource was       *)
(* created and released, the order of the teardown events).                 *)
(***************************************************************************)
EXTENDS Integers, Sequences, FiniteSets

(* ------------------------------ bounds --------------------------------- *)
\* Width of a counter word.  atomic64_t is 64 bits wide; the model keeps the
\* wrap-around arithmetic and scales the width down.
WordBits == 2
\* Largest packet length (skb->len) the host hands to the driver.
MaxLen == 2
\* Transmit calls the host makes in one run.
MaxCalls == 2

(* ------------------------- program constants --------------------------- *)
ENOMEM == 12
NETDEV_TX_OK == 0

Modulus == 2 ^ WordBits
Words == 0 .. (Modulus - 1)
Lens == 1 .. MaxLen
\* Two transmit contexts (cores) may be inside inzunet_start_xmit at once.
Threads == {1, 2}
\* One reader context: /proc reads are serialised here, transmit is not.
Readers == {1}
\* Error codes register_netdev may return (negative errno values).
RegErrs == {-16, -22}
NULL == "NULL"
\* A value that may be absent: <<>> or <<v>>.
None == <<>>
Some(v) == <<v>>

\* struct inzunet_priv: the value of an atomic64_t read as the s64 it is.
ToSigned(w) == IF w >= Modulus \div 2 THEN w - Modulus ELSE w

VARIABLES
    inzunet_dev,        \* static struct net_device *inzunet_dev
    inzunet_proc_entry, \* static struct proc_dir_entry *inzunet_proc_entry
    devAlloc,           \* the net_device memory is live (allocated, not freed)
    registered,         \* the net_device is in the host's device table
    queueOn,            \* transmit queue started (Registered-Running)
    ndoRet,             \* last return value of ndo_open and of ndo_stop
    tx_packets,         \* priv->tx_packets, as a word
    tx_bytes,           \* priv->tx_bytes, as a word
    procExists,         \* /proc/inzunet_stats exists in the host
    initPc, initRet,    \* position and return value of inzunet_init
    hostErr,            \* what register_netdev returned
    exitPc,             \* position of inzunet_exit
    xpc, xlen, xadmit, released, xret,   \* per transmit context
    rpc, rdP, rdB, out, rret,            \* per reader context
    histP, histB,       \* values each counter held while a read is running
    overlap,            \* a transmit call was in progress while the read is running
    torn,               \* kinds of inconsistent pair that finished reads have returned
    acct,               \* how often each host resource was created / released
    events,             \* lifecycle events in the order they happened
    nCalls, sumLen,     \* transmit calls made so far and the sum of their lengths
    nStopped            \* how many of them found the queue stopped

lifeVars == <<inzunet_dev, inzunet_proc_entry, devAlloc, registered, procExists,
              initPc, initRet, hostErr, exitPc, acct, events>>
ctrVars  == <<tx_packets, tx_bytes>>
xmitVars == <<xpc, xlen, xadmit, released, xret, nCalls, sumLen, nStopped>>
readVars == <<rpc, rdP, rdB, out, rret>>
histVars == <<histP, histB, overlap, torn>>
queueVars == <<queueOn, ndoRet>>
vars == <<lifeVars, queueVars, ctrVars, xmitVars, readVars, histVars>>

Bump(field) == [acct EXCEPT ![field] = @ + 1]

XmitInFlight(t) == xpc[t] \in {"inc", "add", "free"}
ReadInFlight(r) == rpc[r] \in {"check", "read"}

\* A read in flight records every value a counter takes on; the record ends
\* with the read.
Observe(hist, v) == [r \in Readers |-> IF ReadInFlight(r) THEN hist[r] \cup {v} ELSE hist[r]]

Init ==
    /\ inzunet_dev = NULL
    /\ inzunet_proc_entry = NULL
    /\ devAlloc = FALSE
    /\ registered = FALSE
    /\ queueOn = FALSE
    /\ ndoRet = [open |-> None, stop |-> None]
    /\ tx_packets = 0
    /\ tx_bytes = 0
    /\ procExists = FALSE
    /\ initPc = "alloc"
    /\ initRet = None
    /\ hostErr = None
    /\ exitPc = "unloaded"
    /\ xpc = [t \in Threads |-> "idle"]
    /\ xlen = [t \in Threads |-> 0]
    /\ xadmit = [t \in Threads |-> FALSE]
    /\ released = [t \in Threads |-> 0]
    /\ xret = [t \in Threads |-> None]
    /\ rpc = [r \in Readers |-> "idle"]
    /\ rdP = [r \in Readers |-> None]
    /\ rdB = [r \in Readers |-> None]
    /\ out = [r \in Readers |-> None]
    /\ rret = [r \in Readers |-> None]
    /\ histP = [r \in Readers |-> {}]
    /\ histB = [r \in Readers |-> {}]
    /\ overlap = [r \in Readers |-> FALSE]
    /\ torn = {}
    /\ acct = [alloc |-> 0, free |-> 0, reg |-> 0, unreg |-> 0,
               proc |-> 0, unproc |-> 0, regTry |-> 0, procTry |-> 0, ctrSet |-> 0]
    /\ events = <<>>
    /\ nCalls = 0
    /\ sumLen = 0
    /\ nStopped = 0

(* --------------------------- inzunet_init ------------------------------ *)
\* Faulty variant: the failed allocation is reported as success.
InitAllocFail_ReturnsZero ==
    /\ inzunet_dev' = NULL
    /\ initRet' = Some(0)
    /\ initPc' = "returned"
    /\ UNCHANGED <<devAlloc, acct, events, ctrVars>>

\* if (!inzunet_dev) return -ENOMEM;
InitAllocFail ==
    /\ inzunet_dev' = NULL
    /\ initRet' = Some(-ENOMEM)
    /\ initPc' = "returned"
    /\ UNCHANGED <<devAlloc, acct, events, ctrVars>>

\* inzunet_dev = alloc_netdev(0, "inzunet%d", NET_NAME_UNKNOWN, inzunet_setup);
\* The private area of a fresh device holds whatever the allocator left there.
InitAlloc ==
    /\ initPc = "alloc"
    /\ \E ok \in BOOLEAN :
         IF ok
         THEN /\ inzunet_dev' = "dev"
              /\ devAlloc' = TRUE
              /\ acct' = Bump("alloc")
              /\ events' = Append(events, "alloc")
              /\ \E p \in Words, b \in Words : tx_packets' = p /\ tx_bytes' = b
              /\ initPc' = "set_packets"
              /\ UNCHANGED initRet
         ELSE InitAllocFail
    /\ UNCHANGED <<inzunet_proc_entry, registered, procExists, hostErr, exitPc,
                   queueVars, xmitVars, readVars, histVars>>

\* priv = netdev_priv(inzunet_dev); atomic64_set(&priv->tx_packets, 0);
InitSetPackets ==
    /\ UNCHANGED torn
    /\ initPc = "set_packets"
    /\ tx_packets' = 0
    /\ histP' = Observe(histP, 0)
    /\ acct' = Bump("ctrSet")
    /\ initPc' = "set_bytes"
    /\ UNCHANGED <<inzunet_dev, inzunet_proc_entry, devAlloc, registered, procExists,
                   initRet, hostErr, exitPc, events, queueVars, tx_bytes, xmitVars,
                   readVars, histB, overlap>>

\* atomic64_set(&priv->tx_bytes, 0);
InitSetBytes ==
    /\ UNCHANGED torn
    /\ initPc = "set_bytes"
    /\ tx_bytes' = 0
    /\ histB' = Observe(histB, 0)
    /\ acct' = Bump("ctrSet")
    /\ initPc' = "register"
    /\ UNCHANGED <<inzunet_dev, inzunet_proc_entry, devAlloc, registered, procExists,
                   initRet, hostErr, exitPc, events, queueVars, tx_packets, xmitVars,
                   readVars, histP, overlap>>

\* Faulty variant: the error is returned without freeing the device.
InitRegisterFail_Leak(err) ==
    /\ acct' = Bump("regTry")
    /\ initRet' = Some(err)
    /\ initPc' = "returned"
    /\ UNCHANGED <<devAlloc, events, registered>>

\* if (err) { pr_err(...); free_netdev(inzunet_dev); return err; }
InitRegisterFail(err) ==
    /\ devAlloc' = FALSE
    /\ acct' = [acct EXCEPT !.regTry = @ + 1, !.free = @ + 1]
    /\ events' = Append(events, "free")
    /\ initRet' = Some(err)
    /\ initPc' = "returned"
    /\ UNCHANGED registered

\* err = register_netdev(inzunet_dev);
InitRegister ==
    /\ initPc = "register"
    /\ \E err \in RegErrs \cup {0} :
         /\ hostErr' = Some(err)
         /\ IF err = 0
            THEN /\ registered' = TRUE
                 /\ acct' = [acct EXCEPT !.regTry = @ + 1, !.reg = @ + 1]
                 /\ events' = Append(events, "register")
                 /\ initPc' = "proc_create"
                 /\ UNCHANGED <<devAlloc, initRet>>
            ELSE InitRegisterFail(err)
    /\ UNCHANGED <<inzunet_dev, inzunet_proc_entry, procExists, exitPc, queueVars,
                   ctrVars, xmitVars, readVars, histVars>>

\* Faulty variant: a missing status entry aborts startup and rolls the device back.
InitProcCreateFail_Fatal ==
    /\ inzunet_proc_entry' = NULL
    /\ registered' = FALSE
    /\ devAlloc' = FALSE
    /\ acct' = [acct EXCEPT !.procTry = @ + 1, !.unreg = @ + 1, !.free = @ + 1]
    /\ events' = events \o <<"unregister", "free">>
    /\ initRet' = Some(-ENOMEM)
    /\ UNCHANGED procExists

\* if (!inzunet_proc_entry) { pr_warn(...); }  ...  return 0;
InitProcCreateFail ==
    /\ inzunet_proc_entry' = NULL
    /\ acct' = Bump("procTry")
    /\ initRet' = Some(0)
    /\ UNCHANGED <<procExists, events, registered, devAlloc>>

\* inzunet_proc_entry = proc_create(PROC_NAME, 0444, NULL, &inzunet_proc_ops);
\* pr_info(...); return 0;
InitProcCreate ==
    /\ initPc = "proc_create"
    /\ \E ok \in BOOLEAN :
         IF ok
         THEN /\ inzunet_proc_entry' = "entry"
              /\ procExists' = TRUE
              /\ acct' = [acct EXCEPT !.procTry = @ + 1, !.proc = @ + 1]
              /\ events' = Append(events, "proc_create")
              /\ initRet' = Some(0)
              /\ UNCHANGED <<registered, devAlloc>>
         ELSE InitProcCreateFail
    /\ initPc' = "returned"
    /\ UNCHANGED <<inzunet_dev, hostErr, exitPc, queueVars,
                   ctrVars, xmitVars, readVars, histVars>>

(* --------------------------- inzunet_exit ------------------------------ *)
\* The host runs module exit only for a module whose init returned 0.
ExitCall ==
    /\ initPc = "returned"
    /\ initRet = Some(0)
    /\ exitPc = "unloaded"
    /\ exitPc' = "remove_proc"
    /\ UNCHANGED <<inzunet_dev, inzunet_proc_entry, devAlloc, registered, procExists,
                   initPc, initRet, hostErr, acct, events, queueVars, ctrVars,
                   xmitVars, readVars, histVars>>

\* Faulty variant: the status entry is left in place at shutdown.
ExitRemoveProc_Skip ==
    /\ exitPc = "remove_proc"
    /\ exitPc' = "unregister"
    /\ UNCHANGED <<inzunet_dev, inzunet_proc_entry, devAlloc, registered, procExists,
                   initPc, initRet, hostErr, acct, events,
                   queueVars, ctrVars, xmitVars, readVars, histVars>>

\* Faulty variant: the module forgets its pointer to the status entry without
\* asking the host to remove the entry.
ExitRemoveProc_ForgetsEntry ==
    /\ exitPc = "remove_proc"
    /\ inzunet_proc_entry' = NULL
    /\ exitPc' = "unregister"
    /\ UNCHANGED <<inzunet_dev, devAlloc, registered, procExists, initPc, initRet,
                   hostErr, acct, events, queueVars, ctrVars, xmitVars, readVars,
                   histVars>>

\* if (inzunet_proc_entry) { remove_proc_entry(PROC_NAME, NULL); inzunet_proc_entry = NULL; }
\* remove_proc_entry returns once no read of the entry is in progress.
ExitRemoveProc ==
    /\ exitPc = "remove_proc"
    /\ IF inzunet_proc_entry # NULL
       THEN /\ \A r \in Readers : ~ReadInFlight(r)
            /\ procExists' = FALSE
            /\ acct' = Bump("unproc")
            /\ events' = Append(events, "proc_remove")
            /\ inzunet_proc_entry' = NULL
       ELSE UNCHANGED <<procExists, acct, events, inzunet_proc_entry>>
    /\ exitPc' = "unregister"
    /\ UNCHANGED <<inzunet_dev, devAlloc, registered, initPc, initRet, hostErr,
                   queueVars, ctrVars, xmitVars, readVars, histVars>>

\* Faulty variant: the device is freed without being unregistered first.
ExitUnregister_SkipsUnregister ==
    /\ exitPc = "unregister"
    /\ exitPc' = IF inzunet_dev # NULL THEN "free" ELSE "returned"
    /\ UNCHANGED <<inzunet_dev, inzunet_proc_entry, devAlloc, procExists, initPc,
                   initRet, hostErr, registered, queueVars, acct, events,
                   ctrVars, xmitVars, readVars, histVars>>

\* if (inzunet_dev) { unregister_netdev(inzunet_dev); ...
\* unregister_netdev closes the device (ndo_stop when it is up) and returns
\* once no transmit call is running on it.
ExitUnregister ==
    /\ exitPc = "unregister"
    /\ IF inzunet_dev # NULL
       THEN /\ \A t \in Threads : ~XmitInFlight(t)
            /\ registered' = FALSE
            /\ queueOn' = FALSE
            /\ ndoRet' = IF queueOn THEN [ndoRet EXCEPT !.stop = Some(0)] ELSE ndoRet
            /\ acct' = Bump("unreg")
            /\ events' = Append(events, "unregister")
            /\ exitPc' = "free"
       ELSE /\ exitPc' = "returned"
            /\ UNCHANGED <<registered, queueVars, acct, events>>
    /\ UNCHANGED <<inzunet_dev, inzunet_proc_entry, devAlloc, procExists, initPc,
                   initRet, hostErr, ctrVars, xmitVars, readVars, histVars>>

\* Faulty variant: the device is freed a second time.
ExitFree_Twice ==
    /\ exitPc = "free"
    /\ devAlloc' = FALSE
    /\ acct' = [acct EXCEPT !.free = @ + 2]
    /\ events' = events \o <<"free", "free">>
    /\ exitPc' = "returned"
    /\ UNCHANGED <<inzunet_dev, inzunet_proc_entry, registered, procExists, initPc,
                   initRet, hostErr, queueVars, ctrVars, xmitVars, readVars, histVars>>

\* ... free_netdev(inzunet_dev); pr_info(...); }
ExitFree ==
    /\ exitPc = "free"
    /\ devAlloc' = FALSE
    /\ acct' = Bump("free")
    /\ events' = Append(events, "free")
    /\ exitPc' = "returned"
    /\ UNCHANGED <<inzunet_dev, inzunet_proc_entry, registered, procExists, initPc,
                   initRet, hostErr, queueVars, ctrVars, xmitVars, readVars, histVars>>

(* ---------------------- inzunet_open / inzunet_stop -------------------- *)
\* The host brings the interface up only when it is registered and down,
\* and down only when it is up; the calls are serialised by the host.
\* netif_start_queue(dev); return 0;
inzunet_open ==
    /\ registered
    /\ ~queueOn
    /\ queueOn' = TRUE
    /\ ndoRet' = [ndoRet EXCEPT !.open = Some(0)]
    /\ UNCHANGED <<lifeVars, ctrVars, xmitVars, readVars, histVars>>

\* Faulty variant: bringing the interface down also clears the counters.
inzunet_stop_ResetsCounters ==
    /\ UNCHANGED torn
    /\ registered
    /\ queueOn
    /\ queueOn' = FALSE
    /\ ndoRet' = [ndoRet EXCEPT !.stop = Some(0)]
    /\ tx_packets' = 0
    /\ tx_bytes' = 0
    /\ histP' = Observe(histP, 0)
    /\ histB' = Observe(histB, 0)
    /\ UNCHANGED <<lifeVars, xmitVars, readVars, overlap>>

\* Faulty variant: bringing the interface down cancels the transmit calls in
\* progress, which return without the updates they had not yet made.
inzunet_stop_CancelsInFlight ==
    /\ registered
    /\ queueOn
    /\ queueOn' = FALSE
    /\ ndoRet' = [ndoRet EXCEPT !.stop = Some(0)]
    /\ xpc' = [t \in Threads |-> IF XmitInFlight(t) THEN "done" ELSE xpc[t]]
    /\ released' = [t \in Threads |-> IF XmitInFlight(t) THEN 1 ELSE released[t]]
    /\ xret' = [t \in Threads |->
                   IF XmitInFlight(t) THEN Some(NETDEV_TX_OK) ELSE xret[t]]
    /\ xlen' = [t \in Threads |-> IF XmitInFlight(t) THEN 0 ELSE xlen[t]]
    /\ UNCHANGED <<lifeVars, ctrVars, xadmit, nCalls, sumLen, nStopped, readVars,
                   histVars>>

\* netif_stop_queue(dev); return 0;
inzunet_stop ==
    /\ registered
    /\ queueOn
    /\ queueOn' = FALSE
    /\ ndoRet' = [ndoRet EXCEPT !.stop = Some(0)]
    /\ UNCHANGED <<lifeVars, ctrVars, xmitVars, readVars, histVars>>

(* -------------------------- inzunet_start_xmit ------------------------- *)
\* Faulty variant: the increment counts down.
AtomicInc_Dec(w) == (w + Modulus - 1) % Modulus
\* atomic64_inc: one indivisible read-modify-write of the word.
AtomicInc(w) == (w + 1) % Modulus
\* Faulty variant: the length is stored (atomic64_set) instead of added.
AtomicAdd_Set(i, w) == i % Modulus
\* atomic64_add(i, v): one indivisible read-modify-write of the word.
AtomicAdd(i, w) == (w + i) % Modulus
\* Faulty variant: the packet is never freed.
KfreeSkb_Leak(n) == n
\* dev_kfree_skb(skb): drops the caller's reference to the packet.
KfreeSkb(n) == n + 1

\* The host calls ndo_start_xmit of a registered device from any core.  The
\* queue flag is tested by the host before the call, never by the handler, so
\* the handler can find the queue stopped; xadmit keeps what the flag was
\* when the handler was entered.
\* struct inzunet_priv *priv = netdev_priv(dev);
XmitCall(t, len) ==
    /\ UNCHANGED torn
    /\ registered
    /\ xpc[t] \in {"idle", "done"}
    /\ nCalls < MaxCalls
    /\ xpc' = [xpc EXCEPT ![t] = "inc"]
    /\ xlen' = [xlen EXCEPT ![t] = len]
    /\ xadmit' = [xadmit EXCEPT ![t] = queueOn]
    /\ released' = [released EXCEPT ![t] = 0]
    /\ xret' = [xret EXCEPT ![t] = None]
    /\ nCalls' = nCalls + 1
    /\ sumLen' = sumLen + len
    /\ nStopped' = IF queueOn THEN nStopped ELSE nStopped + 1
    /\ overlap' = [r \in Readers |-> overlap[r] \/ ReadInFlight(r)]
    /\ UNCHANGED <<lifeVars, queueVars, ctrVars, readVars, histP, histB>>

\* atomic64_inc(&priv->tx_packets);
XmitInc(t) ==
    /\ UNCHANGED torn
    /\ xpc[t] = "inc"
    /\ tx_packets' = AtomicInc(tx_packets)
    /\ histP' = Observe(histP, tx_packets')
    /\ xpc' = [xpc EXCEPT ![t] = "add"]
    /\ UNCHANGED <<lifeVars, queueVars, tx_bytes, xlen, xadmit, released, xret,
                   nCalls, sumLen, nStopped, readVars, histB, overlap>>

\* Faulty variant: the byte update waits until no status read is running.
XmitAdd_WaitsForReader(t) ==
    /\ UNCHANGED torn
    /\ xpc[t] = "add"
    /\ \A r \in Readers : ~ReadInFlight(r)
    /\ tx_bytes' = AtomicAdd(xlen[t], tx_bytes)
    /\ histB' = Observe(histB, tx_bytes')
    /\ xpc' = [xpc EXCEPT ![t] = "free"]
    /\ UNCHANGED <<lifeVars, queueVars, tx_packets, xlen, xadmit, released, xret,
                   nCalls, sumLen, nStopped, readVars, histP, overlap>>

\* atomic64_add(skb->len, &priv->tx_bytes);
XmitAdd(t) ==
    /\ UNCHANGED torn
    /\ xpc[t] = "add"
    /\ tx_bytes' = AtomicAdd(xlen[t], tx_bytes)
    /\ histB' = Observe(histB, tx_bytes')
    /\ xpc' = [xpc EXCEPT ![t] = "free"]
    /\ UNCHANGED <<lifeVars, queueVars, tx_packets, xlen, xadmit, released, xret,
                   nCalls, sumLen, nStopped, readVars, histP, overlap>>

\* pr_info(...); dev_kfree_skb(skb); return NETDEV_TX_OK;
XmitFree(t) ==
    /\ xpc[t] = "free"
    /\ released' = [released EXCEPT ![t] = KfreeSkb(@)]
    /\ xret' = [xret EXCEPT ![t] = Some(NETDEV_TX_OK)]
    /\ xlen' = [xlen EXCEPT ![t] = 0]
    /\ xpc' = [xpc EXCEPT ![t] = "done"]
    /\ UNCHANGED <<lifeVars, queueVars, ctrVars, xadmit, nCalls, sumLen, nStopped,
                   readVars, histVars>>

\* The next statement of the transmit call running in context t.
XmitStep(t) == XmitInc(t) \/ XmitAdd(t) \/ XmitFree(t)

(* --------------------------- inzunet_proc_show ------------------------- *)
\* atomic64_read(&priv->...): the word as it is, or anything at all when the
\* device memory has been freed.
AtomicRead(w) == IF devAlloc THEN {w} ELSE Words

\* The host runs the show callback for a read of the existing /proc entry.
ProcRead(r) ==
    /\ UNCHANGED torn
    /\ procExists
    /\ rpc[r] \in {"idle", "done"}
    /\ rpc' = [rpc EXCEPT ![r] = "check"]
    /\ rdP' = [rdP EXCEPT ![r] = None]
    /\ rdB' = [rdB EXCEPT ![r] = None]
    /\ out' = [out EXCEPT ![r] = None]
    /\ rret' = [rret EXCEPT ![r] = None]
    /\ histP' = [histP EXCEPT ![r] = {tx_packets}]
    /\ histB' = [histB EXCEPT ![r] = {tx_bytes}]
    /\ overlap' = [overlap EXCEPT ![r] = \E t \in Threads : XmitInFlight(t)]
    /\ UNCHANGED <<lifeVars, queueVars, ctrVars, xmitVars>>

\* The show callback entered directly, whatever the state of the module: the
\* function as such, without the host's /proc entry in front of it.
ShowCall(r) ==
    /\ UNCHANGED torn
    /\ rpc[r] \in {"idle", "done"}
    /\ rpc' = [rpc EXCEPT ![r] = "check"]
    /\ rdP' = [rdP EXCEPT ![r] = None]
    /\ rdB' = [rdB EXCEPT ![r] = None]
    /\ out' = [out EXCEPT ![r] = None]
    /\ rret' = [rret EXCEPT ![r] = None]
    /\ histP' = [histP EXCEPT ![r] = {tx_packets}]
    /\ histB' = [histB EXCEPT ![r] = {tx_bytes}]
    /\ overlap' = [overlap EXCEPT ![r] = \E t \in Threads : XmitInFlight(t)]
    /\ UNCHANGED <<lifeVars, queueVars, ctrVars, xmitVars>>

\* Faulty variant: without a device the read fails instead of printing zeros.
ShowCheck_FallbackFails(r) ==
    /\ UNCHANGED torn
    /\ rpc[r] = "check"
    /\ IF inzunet_dev = NULL
       THEN /\ rret' = [rret EXCEPT ![r] = Some(-1)]
            /\ rpc' = [rpc EXCEPT ![r] = "done"]
            /\ histP' = [histP EXCEPT ![r] = {}]
            /\ histB' = [histB EXCEPT ![r] = {}]
            /\ overlap' = [overlap EXCEPT ![r] = FALSE]
            /\ UNCHANGED out
       ELSE /\ rpc' = [rpc EXCEPT ![r] = "read"]
            /\ UNCHANGED <<out, rret, histVars>>
    /\ UNCHANGED <<lifeVars, queueVars, ctrVars, xmitVars, rdP, rdB>>

\* if (!inzunet_dev) { seq_printf(m, "tx_packets=0\ntx_bytes=0\n"); return 0; }
\* priv = netdev_priv(inzunet_dev);
ShowCheck(r) ==
    /\ UNCHANGED torn
    /\ rpc[r] = "check"
    /\ IF inzunet_dev = NULL
       THEN /\ out' = [out EXCEPT ![r] = <<0, 0>>]
            /\ rret' = [rret EXCEPT ![r] = Some(0)]
            /\ rpc' = [rpc EXCEPT ![r] = "done"]
            /\ histP' = [histP EXCEPT ![r] = {}]
            /\ histB' = [histB EXCEPT ![r] = {}]
            /\ overlap' = [overlap EXCEPT ![r] = FALSE]
       ELSE /\ rpc' = [rpc EXCEPT ![r] = "read"]
            /\ UNCHANGED <<out, rret, histVars>>
    /\ UNCHANGED <<lifeVars, queueVars, ctrVars, xmitVars, rdP, rdB>>

\* The two atomic64_read calls are arguments of one seq_printf call: C leaves
\* the order in which they are evaluated to the compiler, so either may be
\* first.
\* Faulty variant: the packet value is read from the byte counter.
ShowReadPackets_WrongField(r) ==
    /\ rpc[r] = "read"
    /\ rdP[r] = None
    /\ \E v \in AtomicRead(tx_bytes) : rdP' = [rdP EXCEPT ![r] = Some(v)]
    /\ UNCHANGED <<lifeVars, queueVars, ctrVars, xmitVars, rpc, rdB, out, rret,
                   histVars>>

\* (long long)atomic64_read(&priv->tx_packets)
ShowReadPackets(r) ==
    /\ rpc[r] = "read"
    /\ rdP[r] = None
    /\ \E v \in AtomicRead(tx_packets) : rdP' = [rdP EXCEPT ![r] = Some(v)]
    /\ UNCHANGED <<lifeVars, queueVars, ctrVars, xmitVars, rpc, rdB, out, rret,
                   histVars>>

\* Faulty variant: the byte value is the one stored at startup, not the
\* counter's current one.
ShowReadBytes_Stale(r) ==
    /\ rpc[r] = "read"
    /\ rdB[r] = None
    /\ rdB' = [rdB EXCEPT ![r] = Some(0)]
    /\ UNCHANGED <<lifeVars, queueVars, ctrVars, xmitVars, rpc, rdP, out, rret,
                   histVars>>

\* (long long)atomic64_read(&priv->tx_bytes)
ShowReadBytes(r) ==
    /\ rpc[r] = "read"
    /\ rdB[r] = None
    /\ \E v \in AtomicRead(tx_bytes) : rdB' = [rdB EXCEPT ![r] = Some(v)]
    /\ UNCHANGED <<lifeVars, queueVars, ctrVars, xmitVars, rpc, rdP, out, rret,
                   histVars>>

\* seq_printf(m, "tx_packets=%lld\ntx_bytes=%lld\n", ...); return 0;
\* The text is kept as the pair of numbers it prints, each a signed decimal.
ShowPrint(r) ==
    /\ UNCHANGED torn
    /\ rpc[r] = "read"
    /\ rdP[r] # None
    /\ rdB[r] # None
    /\ out' = [out EXCEPT ![r] = <<ToSigned(rdP[r][1]), ToSigned(rdB[r][1])>>]
    /\ rret' = [rret EXCEPT ![r] = Some(0)]
    /\ rpc' = [rpc EXCEPT ![r] = "done"]
    /\ rdP' = [rdP EXCEPT ![r] = None]
    /\ rdB' = [rdB EXCEPT ![r] = None]
    /\ histP' = [histP EXCEPT ![r] = {}]
    /\ histB' = [histB EXCEPT ![r] = {}]
    /\ overlap' = [overlap EXCEPT ![r] = FALSE]
    /\ UNCHANGED <<lifeVars, queueVars, ctrVars, xmitVars>>

\* What a returned pair (p, b) of counter words shows by itself, as long as
\* neither counter has wrapped: every packet is between 1 and MaxLen bytes
\* long, so fewer bytes than packets means a counted packet whose length is
\* not in b, and more than MaxLen bytes per packet means b holds the length
\* of a packet not counted in p.
TornKinds(p, b) ==
    (IF b < p THEN {"packets_ahead"} ELSE {}) \cup
    (IF b > p * MaxLen THEN {"bytes_ahead"} ELSE {})

\* ShowPrint, with the kinds of inconsistency of the pair it returns added to
\* the record of torn reads.
ShowPrintRecorded(r) ==
    /\ rpc[r] = "read"
    /\ rdP[r] # None
    /\ rdB[r] # None
    /\ out' = [out EXCEPT ![r] = <<ToSigned(rdP[r][1]), ToSigned(rdB[r][1])>>]
    /\ rret' = [rret EXCEPT ![r] = Some(0)]
    /\ rpc' = [rpc EXCEPT ![r] = "done"]
    /\ rdP' = [rdP EXCEPT ![r] = None]
    /\ rdB' = [rdB EXCEPT ![r] = None]
    /\ histP' = [histP EXCEPT ![r] = {}]
    /\ histB' = [histB EXCEPT ![r] = {}]
    /\ overlap' = [overlap EXCEPT ![r] = FALSE]
    /\ torn' = IF devAlloc /\ sumLen < Modulus
               THEN torn \cup TornKinds(rdP[r][1], rdB[r][1])
               ELSE torn
    /\ UNCHANGED <<lifeVars, queueVars, ctrVars, xmitVars>>

Next ==
    \/ InitAlloc \/ InitSetPackets \/ InitSetBytes \/ InitRegister \/ InitProcCreate
    \/ ExitCall \/ ExitRemoveProc \/ ExitUnregister \/ ExitFree
    \/ inzunet_open \/ inzunet_stop
    \/ \E t \in Threads : \/ \E len \in Lens : XmitCall(t, len)
                          \/ XmitInc(t) \/ XmitAdd(t) \/ XmitFree(t)
    \/ \E r \in Readers : \/ ProcRead(r) \/ ShowCheck(r)
                          \/ ShowReadPackets(r) \/ ShowReadBytes(r) \/ ShowPrint(r)

Spec == Init /\ [][Next]_vars

\* A context that is inside inzunet_start_xmit keeps executing it: each
\* transmit context takes its own next step.  Nothing is assumed about
\* readers, other transmit contexts, or the host's lifecycle calls.
SpecFair == Spec /\ \A t \in Threads : WF_vars(XmitStep(t))

\* The module's startup and shutdown together with the show callback entered
\* directly: the callback runs in every state of the module, also those in
\* which the host offers no /proc entry to read.
NextShow ==
    \/ InitAlloc \/ InitSetPackets \/ InitSetBytes \/ InitRegister \/ InitProcCreate
    \/ ExitCall \/ ExitRemoveProc \/ ExitUnregister \/ ExitFree
    \/ \E r \in Readers : \/ ShowCall(r) \/ ShowCheck(r)
                          \/ ShowReadPackets(r) \/ ShowReadBytes(r) \/ ShowPrint(r)

SpecShow == Init /\ [][NextShow]_vars

\* The loaded module carrying traffic and serving status reads, with the
\* record of torn reads kept; shutdown is left out.
NextTorn ==
    \/ InitAlloc \/ InitSetPackets \/ InitSetBytes \/ InitRegister \/ InitProcCreate
    \/ inzunet_open \/ inzunet_stop
    \/ \E t \in Threads : \/ \E len \in Lens : XmitCall(t, len)
                          \/ XmitInc(t) \/ XmitAdd(t) \/ XmitFree(t)
    \/ \E r \in Readers : \/ ProcRead(r) \/ ShowCheck(r)
                          \/ ShowReadPackets(r) \/ ShowReadBytes(r)
                          \/ ShowPrintRecorded(r)

SpecTorn == Init /\ [][NextTorn]_vars

(* ------------------------------- claims -------------------------------- *)
\* The counters hold what the startup stores and the transmit calls put there.
CountersReady == devAlloc /\ initPc \notin {"alloc", "set_packets", "set_bytes"}
Quiescent == \A t \in Threads : ~XmitInFlight(t)

\* C1 (as stated): once all N transmit calls have returned, packet_count
\* equals N and byte_count equals the sum of the lengths, as plain numbers
\* (stated here for runs in which every call found the queue started).
C1_ExactTotals ==
    (CountersReady /\ Quiescent /\ nStopped = 0) =>
        (tx_packets = nCalls /\ tx_bytes = sumLen)

\* C1 (amended): once all N transmit calls have returned, packet_count equals
\* N and byte_count equals the sum of the lengths, both modulo 2^WordBits,
\* in every interleaving of the calls' steps.
C1_TotalsModuloWord ==
    (CountersReady /\ Quiescent) =>
        (tx_packets = nCalls % Modulus /\ tx_bytes = sumLen % Modulus)

\* Both contexts have completed a call and the byte total has passed the word.
C1_Witness ==
    /\ CountersReady
    /\ \A t \in Threads : xpc[t] = "done"
    /\ nCalls >= 2
    /\ sumLen >= Modulus

\* C2: a transmit call in progress has not released its handle, a call that
\* has returned has released it exactly once, and no handle is released twice.
C2_ReleasedExactlyOnce ==
    \A t \in Threads :
        /\ released[t] <= 1
        /\ XmitInFlight(t) => released[t] = 0
        /\ xpc[t] = "done" => released[t] = 1

\* One call has returned while another call and a status read are in progress.
C2_Witness ==
    \E t, u \in Threads, r \in Readers :
        /\ xpc[t] = "done" /\ released[t] = 1
        /\ XmitInFlight(u)
        /\ ReadInFlight(r)

\* C3: a transmit call entered while the queue is stopped releases its handle
\* exactly once and none of its steps changes packet_count or byte_count.
C3_StoppedCallLeavesCounters ==
    [][\A t \in Threads :
          (XmitInFlight(t) /\ ~xadmit[t] /\ xpc'[t] # xpc[t]) =>
              /\ tx_packets' = tx_packets
              /\ tx_bytes' = tx_bytes
              /\ xpc'[t] = "done" => released'[t] = 1]_vars

\* C4: when startup returns after a failed registration, the device has been
\* deallocated exactly once, no status entry was created, the device is not
\* registered, and startup returns the error code the host supplied.
C4_RegistrationFailureRollsBack ==
    (initPc = "returned" /\ hostErr # None /\ hostErr # Some(0)) =>
        /\ acct.alloc = 1 /\ acct.free = 1 /\ ~devAlloc
        /\ acct.procTry = 0 /\ ~procExists /\ inzunet_proc_entry = NULL
        /\ acct.reg = 0 /\ ~registered
        /\ initRet = hostErr

\* Startup has returned the host's registration error.
C4_Witness ==
    initPc = "returned" /\ hostErr = Some(-16) /\ acct.regTry = 1

\* Startup has failed, or startup succeeded and shutdown has returned.
Finished ==
    \/ initPc = "returned" /\ initRet # Some(0)
    \/ exitPc = "returned"

\* C5: no resource (device allocation, registration, status entry) is ever
\* released more often than it was created, none is created twice, and when
\* startup has failed or shutdown has returned each one that was created
\* has been released exactly once.
C5_ReleasedExactlyOnce ==
    /\ acct.free <= acct.alloc /\ acct.alloc <= 1
    /\ acct.unreg <= acct.reg /\ acct.reg <= 1
    /\ acct.unproc <= acct.proc /\ acct.proc <= 1
    /\ Finished => /\ acct.free = acct.alloc
                   /\ acct.unreg = acct.reg
                   /\ acct.unproc = acct.proc

\* Shutdown has returned after a startup that created all three resources.
C5_Witness ==
    /\ exitPc = "returned"
    /\ acct.alloc = 1 /\ acct.reg = 1 /\ acct.proc = 1
    /\ acct.free = 1 /\ acct.unreg = 1 /\ acct.unproc = 1

IsPrefix(s, t) == Len(s) <= Len(t) /\ SubSeq(t, 1, Len(s)) = s
IsTeardown(e) == e \in {"proc_remove", "unregister", "free"}
Teardown == SelectSeq(events, IsTeardown)

\* C6: after a successful startup the teardown events happen in the order
\* status entry removed (only if it was created), device unregistered, device
\* deallocated, and all of them have happened when shutdown returns; the
\* status entry never exists while the device is unregistered, and the
\* device is never deallocated while registered.
C6_TeardownOrder ==
    initRet = Some(0) =>
        LET expected == IF acct.proc = 1
                        THEN <<"proc_remove", "unregister", "free">>
                        ELSE <<"unregister", "free">>
        IN  /\ IsPrefix(Teardown, expected)
            /\ exitPc = "returned" => Teardown = expected
            /\ procExists => registered
            /\ registered => devAlloc

\* Shutdown has returned in the case where the status entry was never created.
C6_Witness ==
    /\ exitPc = "returned"
    /\ acct.procTry = 1 /\ acct.proc = 0
    /\ Teardown = <<"unregister", "free">>

\* C7: when device allocation fails, startup returns -ENOMEM at once: no
\* counter is initialised, no registration and no status-entry creation is
\* attempted, nothing is deallocated, and the device reference is absent.
C7_AllocationFailure ==
    (initPc = "returned" /\ acct.alloc = 0) =>
        /\ initRet = Some(-ENOMEM)
        /\ acct.ctrSet = 0 /\ acct.regTry = 0 /\ acct.procTry = 0
        /\ acct.free = 0 /\ acct.unreg = 0 /\ acct.unproc = 0
        /\ inzunet_dev = NULL /\ ~devAlloc /\ ~registered /\ ~procExists
        /\ events = <<>>
        /\ exitPc = "unloaded"

\* Startup has returned without a device.
C7_Witness ==
    initPc = "returned" /\ acct.alloc = 0 /\ initRet = Some(-ENOMEM)

\* C8: when status-entry creation fails after a successful registration,
\* startup returns success and, until shutdown is requested, the device stays
\* allocated and registered with nothing unregistered or deallocated.
C8_StatusEntryFailureNotFatal ==
    (initPc = "returned" /\ acct.procTry = 1 /\ acct.proc = 0) =>
        /\ initRet = Some(0)
        /\ exitPc = "unloaded" =>
              /\ devAlloc /\ registered /\ inzunet_dev # NULL
              /\ acct.free = 0 /\ acct.unreg = 0

\* Without a status entry the device has been opened and has counted a packet.
C8_Witness ==
    /\ initPc = "returned" /\ acct.procTry = 1 /\ acct.proc = 0
    /\ exitPc = "unloaded"
    /\ queueOn
    /\ \E t \in Threads : xpc[t] = "done" /\ xadmit[t]
    /\ tx_packets = 1

\* C9 (as stated): while the device exists and its counters are initialised,
\* no step makes packet_count or byte_count smaller; outside that, the
\* counters change only before the device is registered and before any
\* transmit call (stated here for runs in which every call found the queue
\* started).
C9_NeverDecrease ==
    [][/\ (CountersReady /\ devAlloc' /\ nStopped' = 0) =>
              (tx_packets' >= tx_packets /\ tx_bytes' >= tx_bytes)
       /\ (~CountersReady /\ <<tx_packets, tx_bytes>>' # <<tx_packets, tx_bytes>>) =>
              (~registered /\ nCalls = 0)]_vars

\* C9 (amended): while the device exists and its counters are initialised, a
\* step makes a counter smaller only when a transmit call's addition wraps
\* around the word: packet_count goes from old to (old + 1) mod 2^WordBits
\* and byte_count from old to (old + len) mod 2^WordBits; outside that, the
\* counters change only before the device is registered and before any
\* transmit call.
C9_NeverDecreaseUntilWrap ==
    [][/\ (CountersReady /\ devAlloc') =>
              /\ \/ tx_packets' >= tx_packets
                 \/ \E t \in Threads : /\ xpc[t] = "inc" /\ xpc'[t] = "add"
                                       /\ tx_packets' = tx_packets + 1 - Modulus
              /\ \/ tx_bytes' >= tx_bytes
                 \/ \E t \in Threads : /\ xpc[t] = "add" /\ xpc'[t] = "free"
                                       /\ tx_bytes' = tx_bytes + xlen[t] - Modulus
       /\ (~CountersReady /\ <<tx_packets, tx_bytes>>' # <<tx_packets, tx_bytes>>) =>
              (~registered /\ nCalls = 0)]_vars

\* The byte counter has wrapped: it is below the sum of the lengths counted.
C9_Witness ==
    /\ CountersReady /\ Quiescent
    /\ sumLen >= Modulus
    /\ tx_bytes = sumLen - Modulus

\* C10: when a status read finishes, the packet value it read is a value
\* packet_count held at some instant since the read began, the byte value
\* is a value byte_count held at some instant since the read began, and
\* the text printed is made of these two values.
C10_SnapshotValuesWereHeld ==
    [][\A r \in Readers :
          (rpc[r] = "read" /\ rpc'[r] = "done") =>
              /\ rdP[r][1] \in histP[r]
              /\ rdB[r][1] \in histB[r]
              /\ out'[r] = <<ToSigned(rdP[r][1]), ToSigned(rdB[r][1])>>]_vars

\* A read has both values in hand while transmit calls have changed both
\* counters since it began, and the packet value it read is no longer current.
C10_Witness ==
    \E r \in Readers :
        /\ rpc[r] = "read" /\ rdP[r] # None /\ rdB[r] # None
        /\ Cardinality(histP[r]) >= 2 /\ Cardinality(histB[r]) >= 2
        /\ rdP[r][1] # tx_packets
\* C11: a status read that overlaps no transmit call prints the number of
\* transmit calls made since startup and the sum of their lengths (stated
\* here for runs in which every call found the queue started).
C11_QuietReadReportsTotals ==
    [][\A r \in Readers :
          (rpc[r] = "read" /\ rpc'[r] = "done" /\ ~overlap[r] /\ nStopped = 0) =>
              out'[r] = <<nCalls, sumLen>>]_vars

\* C12: the number printed for each counter is the value of the counter word
\* read as an unsigned integer, and is never negative.
C12_PrintsUnsigned ==
    [][\A r \in Readers :
          (rpc[r] = "read" /\ rpc'[r] = "done") =>
              /\ out'[r][1] = rdP[r][1] /\ out'[r][1] >= 0
              /\ out'[r][2] = rdB[r][1] /\ out'[r][2] >= 0]_vars
\* C13: when the show callback finds the device reference absent, it prints
\* tx_packets=0 and tx_bytes=0 and returns 0, and it reads neither counter.
C13_AbsentDevicePrintsZeros ==
    [][\A r \in Readers :
          (rpc[r] = "check" /\ inzunet_dev = NULL /\ rpc'[r] # "check") =>
              /\ rpc'[r] = "done"
              /\ out'[r] = <<0, 0>>
              /\ rret'[r] = Some(0)
              /\ rdP'[r] = None /\ rdB'[r] = None]_vars

\* The callback has returned while there is no device reference.
C13_Witness ==
    \E r \in Readers :
        /\ rpc[r] = "done" /\ inzunet_dev = NULL
        /\ out[r] = <<0, 0>> /\ rret[r] = Some(0)
\* C14: a transmit call is in progress only on a device that is allocated,
\* has its counters initialised, is registered and has been neither
\* unregistered nor deallocated; the same holds for a started queue, so for
\* every open and stop call.
C14_CallsOnlyWhileRegistered ==
    /\ \A t \in Threads :
          XmitInFlight(t) =>
              /\ registered /\ devAlloc /\ CountersReady
              /\ acct.reg = 1 /\ acct.unreg = 0 /\ acct.free = 0
    /\ queueOn => (registered /\ devAlloc /\ acct.unreg = 0)
    /\ (ndoRet.open # None \/ ndoRet.stop # None \/ nCalls > 0) => acct.reg = 1

\* Shutdown has been requested and waits to unregister while a transmit call
\* has yet to update both counters.
C14_Witness ==
    /\ exitPc = "unregister"
    /\ \E t \in Threads : xpc[t] = "inc"
\* C15: a transmit call in progress always has its next step enabled,
\* whatever the other transmit calls and status reads are doing, and every
\* transmit call that starts eventually returns NETDEV_TX_OK.
C15_TransmitCompletes ==
    /\ [](\A t \in Threads : XmitInFlight(t) => ENABLED <<XmitStep(t)>>_vars)
    /\ \A t \in Threads :
          XmitInFlight(t) ~> (xpc[t] = "done" /\ xret[t] = Some(NETDEV_TX_OK))

\* A call has returned success while a status read is halfway through its two
\* reads and the other context has a call that has not started counting.
C15_Witness ==
    \E t, u \in Threads, r \in Readers :
        /\ xpc[t] = "done" /\ xret[t] = Some(NETDEV_TX_OK)
        /\ xpc[u] = "inc"
        /\ rpc[r] = "read" /\ rdP[r] # None /\ rdB[r] = None

\* C16: the open callback turns a registered device's stopped queue into a
\* started one and the stop callback turns a started queue into a stopped one;
\* each returns 0, and neither changes packet_count, byte_count, whether the
\* device is registered or whether the status entry exists.
C16_OpenStopFrame ==
    [][/\ (~queueOn /\ queueOn') =>
              /\ registered /\ registered'
              /\ ndoRet'.open = Some(0)
              /\ ctrVars' = ctrVars /\ procExists' = procExists /\ devAlloc' = devAlloc
       /\ (queueOn /\ ~queueOn' /\ exitPc' = exitPc) =>
              /\ registered /\ registered'
              /\ ndoRet'.stop = Some(0)
              /\ ctrVars' = ctrVars /\ procExists' = procExists /\ devAlloc' = devAlloc
       /\ ndoRet'.open \in {None, Some(0)}
       /\ ndoRet'.stop \in {None, Some(0)}]_vars

\* The interface was brought up, carried traffic and was brought down again,
\* and is still registered with its status entry.
C16_Witness ==
    /\ ndoRet.open = Some(0) /\ ndoRet.stop = Some(0)
    /\ registered /\ ~queueOn /\ procExists
    /\ tx_packets > 0 /\ nStopped = 0

\* C17: a transmit call that entered while the queue was started and is still
\* in progress when the stop callback runs is left as it is by the stop
\* callback, which does not wait for it; each of its remaining steps makes
\* its counter update or releases the handle once and returns success, and
\* the call reaches its return.
C17_AdmittedCallSurvivesStop ==
    /\ [](\A t \in Threads :
             (XmitInFlight(t) /\ xadmit[t] /\ queueOn /\ registered) =>
                 ENABLED <<inzunet_stop>>_vars)
    /\ [][(queueOn /\ ~queueOn' /\ exitPc' = exitPc) =>
              (xmitVars' = xmitVars /\ ctrVars' = ctrVars)]_vars
    /\ [][\A t \in Threads :
              (XmitInFlight(t) /\ xadmit[t] /\ ~queueOn /\ xpc'[t] # xpc[t]) =>
                  /\ xpc[t] = "inc" =>
                         (tx_packets' = AtomicInc(tx_packets) /\ xpc'[t] = "add")
                  /\ xpc[t] = "add" =>
                         (tx_bytes' = AtomicAdd(xlen[t], tx_bytes) /\ xpc'[t] = "free")
                  /\ xpc[t] = "free" =>
                         /\ released[t] = 0 /\ released'[t] = 1
                         /\ xret'[t] = Some(NETDEV_TX_OK) /\ xpc'[t] = "done"]_vars
    /\ \A t \in Threads :
          (XmitInFlight(t) /\ xadmit[t] /\ ~queueOn) ~>
              (xpc[t] = "done" /\ released[t] = 1 /\ xret[t] = Some(NETDEV_TX_OK))

\* A call that entered on a started queue has made its first update and finds
\* the queue stopped by the stop callback, the device still registered.
C17_Witness ==
    \E t \in Threads :
        /\ xpc[t] = "add" /\ xadmit[t]
        /\ ~queueOn /\ registered /\ ndoRet.stop = Some(0)
        /\ exitPc = "unloaded"

\* C18: the pair a status read returns is the pair the counters hold when no
\* transmit call ran during the read, and only then: reads that overlap
\* transmit calls return pairs in which the packet count includes a packet
\* whose length is missing from the byte count, and pairs in which the byte
\* count includes the length of a packet missing from the packet count.
C18_PairConsistentOnlyWhenQuiet ==
    [][\A r \in Readers :
          (rpc[r] = "read" /\ rpc'[r] = "done") =>
              /\ ~overlap[r] =>
                     /\ rdP[r] = Some(tx_packets)
                     /\ rdB[r] = Some(tx_bytes)
                     /\ torn' = torn
              /\ torn' # torn => overlap[r]]_vars

\* Status reads have returned a pair of each inconsistent kind, in a run in
\* which every transmit call found the queue started.
C18_Witness ==
    /\ torn = {"packets_ahead", "bytes_ahead"}
    /\ nStopped = 0

\* C19: whenever the status entry exists, and whenever a read started through
\* it is in progress, the device is allocated and has never been freed, its
\* counters have been initialised, and the module's device pointer is set, so
\* such a read never takes the zero fallback; while the entry exists the
\* device is also registered.
C19_EntryImpliesLiveDevice ==
    /\ procExists =>
          /\ devAlloc /\ acct.free = 0 /\ CountersReady
          /\ registered /\ acct.reg = 1 /\ acct.unreg = 0
          /\ inzunet_dev # NULL /\ inzunet_proc_entry # NULL
    /\ \A r \in Readers :
          ReadInFlight(r) =>
              /\ procExists
              /\ devAlloc /\ acct.free = 0 /\ CountersReady
              /\ inzunet_dev # NULL

\* Shutdown has begun and is held at the removal of the status entry by a
\* read that has fetched one of the two counters.
C19_Witness ==
    \E r \in Readers :
        /\ exitPc = "remove_proc"
        /\ rpc[r] = "read" /\ rdP[r] # None /\ rdB[r] = None
        /\ procExists

\* C20 (as stated): whenever the module's device pointer is not NULL the
\* device it points to is allocated; in particular the pointer is NULL once
\* startup has freed the device after a failed registration and once shutdown
\* has freed it.
C20_ReferenceImpliesAllocated ==
    inzunet_dev # NULL => devAlloc

====
